---- MODULE Spec2Model ----
(***************************************************************************)
(* A model of genienlp's scoring functions (genienlp/metrics.py) and of    *)
(* the entity lookup strategies (genienlp/ned/main.py).                    *)
(*                                                                         *)
(* Python strings are sequences of one-character strings.  Scores are      *)
(* exact rationals <<numerator, denominator>> with a positive denominator. *)
(***************************************************************************)
EXTENDS Integers, Sequences, FiniteSets, Bags, TLC

VARIABLES
    pc,                     \* position of the running call
    s,                      \* normalize_text: the argument
    normalized,             \* normalize_text: the value returned
    prediction,             \* f1_score: first argument
    ground_truth,           \* f1_score: second argument
    f1,                     \* f1_score: the value returned
    line,                   \* to_delta_state: the argument
    delta_state,            \* to_delta_state: the value returned
    greedy,                 \* the predictions (outputs), one string per example
    answer,                 \* the gold answers (targets), one list per example
    result,                 \* the value returned by the call
    raised,                 \* the exception that ended the call, or None
    to_lf,                  \* to_lf[i]: what to_lf(greedy[i], table of example i)
                            \* does, Return(logical form) or Raise
    requested_metrics,      \* compute_metrics: the names of the metrics requested
    answer_is_list,         \* compute_metrics: isinstance(answer[0], list)
    alias2type,             \* self.alias2type; its keys are self.all_aliases
    max_features_size,      \* self.max_features_size
    tokens,                 \* the tokens of the sentence, sentence.split(' ')
    database_lookup_method, \* args.database_lookup_method
    min_entity_len,         \* args.min_entity_len
    max_entity_len,         \* args.max_entity_len
    verbs,                  \* the tokens nltk.pos_tag tags as verbs
    tokens_type_ids,        \* the annotations returned, one per token
    used_aliases,           \* lookup_ngrams: the accepted [type_id, start, end]
    entities                \* lookup_entities: the entities of the answer

vars == <<pc, s, normalized, prediction, ground_truth, f1, line, delta_state,
          greedy, answer, result, raised, to_lf,
          requested_metrics, answer_is_list,
          alias2type, max_features_size, tokens, database_lookup_method,
          min_entity_len, max_entity_len, verbs, tokens_type_ids,
          used_aliases, entities>>

nedVars == <<alias2type, max_features_size, tokens, database_lookup_method,
             min_entity_len, max_entity_len, verbs, tokens_type_ids,
             used_aliases, entities>>

textVars == <<s, normalized, prediction, ground_truth, f1, line, delta_state>>
scoreVars == <<greedy, answer, result, raised, to_lf,
               requested_metrics, answer_is_list>>

None == "None"

\* the variables of the calls that are not running
TextIdle ==
    /\ s = None /\ normalized = None
    /\ prediction = None /\ ground_truth = None /\ f1 = None
    /\ line = None /\ delta_state = None
ScoreIdle ==
    /\ greedy = None /\ answer = None /\ result = None /\ raised = None
    /\ to_lf = None /\ requested_metrics = None /\ answer_is_list = None
NedIdle ==
    /\ alias2type = None /\ max_features_size = None /\ tokens = None
    /\ database_lookup_method = None /\ min_entity_len = None
    /\ max_entity_len = None /\ verbs = None /\ tokens_type_ids = None
    /\ used_aliases = None /\ entities = None

\* ------------------------------------------------------------------------
\* Bounds
\* ------------------------------------------------------------------------
MaxTextLen == 4             \* longest string given to normalize_text
MaxF1Len == 4               \* longest string given to f1_score
MaxExamples == 2            \* most examples in one call of a corpus metric
MaxGolds == 2               \* most gold answers of one example
MaxRequested == 2           \* most names in requested_metrics
MaxTokens == 3              \* most tokens in a sentence given to lookup
MaxFeaturesSize == 2        \* greatest args.max_features_size
MaxLineLen == 6             \* longest line given to to_delta_state
MaxEntities == 2            \* most entities given to lookup_entities

\* ------------------------------------------------------------------------
\* Characters
\* ------------------------------------------------------------------------
\* lower-case letters
LowerLetters == {"a", "n", "t", "h", "e", "b", "d", "o", "x", "y"}
\* upper-case letters that str.lower() maps to a lower-case letter
CasedUpper == {"A", "T", "N"}
Digits == {"1", "2"}
\* an upper-case letter (Unicode category Lu, str.isupper() is true) that
\* str.lower() leaves unchanged, such as U+2102 DOUBLE-STRUCK CAPITAL C
UncasedUpper == {"U+2102"}
UpperLetters == CasedUpper \cup UncasedUpper
\* string.punctuation (some of its members)
punctuation == {".", "_", ":", ",", ";"}
\* characters on which str.split() splits and which str.strip() removes
Whitespace == {" ", "\t"}
\* \w of the re module: letters, digits and the underscore
WordChars == LowerLetters \cup UpperLetters \cup Digits \cup {"_"}

\* the characters of the strings given to normalize_text
Chars == {"a", "n", "t", "h", "e", "b", "A", "T", "U+2102", ".", "_", " ", "\t"}

StringsOver(alphabet, n) == UNION {[1..k -> alphabet] : k \in 0..n}

\* ------------------------------------------------------------------------
\* str methods
\* ------------------------------------------------------------------------
\* str.lower() on one character
LowerChar(ch) ==
    CASE ch = "A" -> "a"
      [] ch = "T" -> "t"
      [] ch = "N" -> "n"
      [] OTHER -> ch

\* str.split() with no argument: the maximal runs of non-whitespace
RECURSIVE SplitFrom(_, _, _)
SplitFrom(text, i, cur) ==
    IF i > Len(text)
    THEN IF cur = <<>> THEN <<>> ELSE <<cur>>
    ELSE IF text[i] \in Whitespace
         THEN IF cur = <<>>
              THEN SplitFrom(text, i + 1, <<>>)
              ELSE <<cur>> \o SplitFrom(text, i + 1, <<>>)
         ELSE SplitFrom(text, i + 1, Append(cur, text[i]))

split(text) == SplitFrom(text, 1, <<>>)

\* ' '.join(words)
RECURSIVE join(_)
join(words) ==
    IF words = <<>> THEN <<>>
    ELSE IF Len(words) = 1 THEN words[1]
    ELSE words[1] \o <<" ">> \o join(Tail(words))

\* ------------------------------------------------------------------------
\* normalize_text
\* ------------------------------------------------------------------------
lower(text) == [i \in 1..Len(text) |-> LowerChar(text[i])]

remove_punc(text) == SelectSeq(text, LAMBDA ch : ch \notin punctuation)

white_space_fix(text) == join(split(text))

\* \b before position i (1-based; i = Len+1 is the end of the text)
IsWordAt(text, i) == i >= 1 /\ i <= Len(text) /\ text[i] \in WordChars
Boundary(text, i) == IsWordAt(text, i - 1) # IsWordAt(text, i)

\* does the literal word match the text at position i
MatchesAt(text, i, word) ==
    /\ i + Len(word) - 1 <= Len(text)
    /\ \A k \in 1..Len(word) : text[i + k - 1] = word[k]

Articles == << <<"a">>, <<"a", "n">>, <<"t", "h", "e">> >>

\* the length matched by \b(a|an|the)\b at position i, 0 when there is no
\* match; the alternatives are tried in the order of the pattern
ArticleMatchLen(text, i) ==
    IF ~Boundary(text, i) THEN 0
    ELSE LET ok(word) == MatchesAt(text, i, word) /\ Boundary(text, i + Len(word))
         IN  IF ok(Articles[1]) THEN Len(Articles[1])
             ELSE IF ok(Articles[2]) THEN Len(Articles[2])
             ELSE IF ok(Articles[3]) THEN Len(Articles[3])
             ELSE 0

\* re.sub(r'\b(a|an|the)\b', ' ', text): leftmost non-overlapping matches
RECURSIVE SubArticlesFrom(_, _)
SubArticlesFrom(text, i) ==
    IF i > Len(text) THEN <<>>
    ELSE LET m == ArticleMatchLen(text, i)
         IN  IF m > 0
             THEN <<" ">> \o SubArticlesFrom(text, i + m)
             ELSE <<text[i]>> \o SubArticlesFrom(text, i + 1)

remove_articles(text) == SubArticlesFrom(text, 1)

\* the articles removed before the punctuation
normalize_text_articles_first(text) ==
    white_space_fix(remove_punc(remove_articles(lower(text))))

normalize_text(text) == white_space_fix(remove_articles(remove_punc(lower(text))))

\* ------------------------------------------------------------------------
\* Rational scores
\* ------------------------------------------------------------------------
Rat(n, d) == <<n, d>>
RatMul(x, y) == <<x[1] * y[1], x[2] * y[2]>>
RatAdd(x, y) == <<x[1] * y[2] + y[1] * x[2], x[2] * y[2]>>
RatDiv(x, y) == <<x[1] * y[2], x[2] * y[1]>>
RatEq(x, y) == x[1] * y[2] = y[1] * x[2]
RatLess(x, y) == x[1] * y[2] < y[1] * x[2]

\* ------------------------------------------------------------------------
\* f1_score
\* ------------------------------------------------------------------------
\* collections.Counter(tokens)
Counter(words) ==
    [tok \in {words[i] : i \in 1..Len(words)} |->
        Cardinality({i \in 1..Len(words) : words[i] = tok})]

Min(a, b) == IF a <= b THEN a ELSE b

\* Counter & Counter: the minimum of the two counts, positive counts only
CounterAnd(c1, c2) ==
    [tok \in (DOMAIN c1) \cap (DOMAIN c2) |-> Min(c1[tok], c2[tok])]

RECURSIVE SumValues(_, _)
SumValues(c, keys) ==
    IF keys = {} THEN 0
    ELSE LET k == CHOOSE x \in keys : TRUE
         IN  c[k] + SumValues(c, keys \ {k})

\* the common tokens counted as a set, not as a multiset
f1_score_set_overlap(pred, truth) ==
    LET prediction_tokens == split(pred)
        ground_truth_tokens == split(truth)
        num_same == Cardinality((DOMAIN Counter(prediction_tokens))
                                    \cap (DOMAIN Counter(ground_truth_tokens)))
        precision == Rat(num_same, Len(prediction_tokens))
        recall == Rat(num_same, Len(ground_truth_tokens))
    IN  IF num_same = 0 THEN Rat(0, 1)
        ELSE RatDiv(RatMul(Rat(2, 1), RatMul(precision, recall)),
                    RatAdd(precision, recall))

f1_score(pred, truth) ==
    LET prediction_tokens == split(pred)
        ground_truth_tokens == split(truth)
        common == CounterAnd(Counter(prediction_tokens), Counter(ground_truth_tokens))
        num_same == SumValues(common, DOMAIN common)
        precision == Rat(num_same, Len(prediction_tokens))
        recall == Rat(num_same, Len(ground_truth_tokens))
    IN  IF num_same = 0 THEN Rat(0, 1)
        ELSE RatDiv(RatMul(Rat(2, 1), RatMul(precision, recall)),
                    RatAdd(precision, recall))

\* ------------------------------------------------------------------------
\* computeEM, computeF1
\* ------------------------------------------------------------------------
\* bool is an int in Python: True is 1 and False is 0
exact_match(pred, truth) == IF pred = truth THEN Rat(1, 1) ELSE Rat(0, 1)

\* max(scores) of a non-empty list: the first of the greatest items
RECURSIVE MaxFrom(_, _, _)
MaxFrom(scores, i, best) ==
    IF i > Len(scores) THEN best
    ELSE MaxFrom(scores, i + 1, IF RatLess(best, scores[i]) THEN scores[i] ELSE best)

max(scores) == MaxFrom(scores, 2, scores[1])

\* sum(scores)
RECURSIVE sum(_)
sum(scores) ==
    IF scores = <<>> THEN Rat(0, 1) ELSE RatAdd(Head(scores), sum(Tail(scores)))

\* metric_fn(prediction, ground_truth), the metric function given by name
Call(metric_fn, pred, truth) ==
    CASE metric_fn = "exact_match" -> exact_match(pred, truth)
      [] metric_fn = "f1_score" -> f1_score(pred, truth)

metric_max_over_ground_truths(metric_fn, pred, ground_truths) ==
    LET scores_for_ground_truths ==
            [k \in 1..Len(ground_truths) |-> Call(metric_fn, pred, ground_truths[k])]
    IN  max(scores_for_ground_truths)

\* the number of pairs zip(outputs, targets) yields
ZipLen(outputs, targets) == Min(Len(outputs), Len(targets))

\* the exception computeEM, computeF1 end with: max() of an empty list of
\* gold answers, then the division by len(outputs)
ComputeScoreRaises(outputs, targets) ==
    IF \E i \in 1..ZipLen(outputs, targets) : targets[i] = <<>>
    THEN "ValueError"
    ELSE IF Len(outputs) = 0 THEN "ZeroDivisionError"
    ELSE None

\* every example scored against its first gold answer only
computeEM_first_gold(outputs, targets) ==
    LET outs == [i \in 1..ZipLen(outputs, targets) |->
                    exact_match(outputs[i], targets[i][1])]
    IN  RatMul(RatDiv(sum(outs), Rat(Len(outputs), 1)), Rat(100, 1))

computeEM(outputs, targets) ==
    LET outs == [i \in 1..ZipLen(outputs, targets) |->
                    metric_max_over_ground_truths("exact_match", outputs[i], targets[i])]
    IN  RatMul(RatDiv(sum(outs), Rat(Len(outputs), 1)), Rat(100, 1))

computeF1(outputs, targets) ==
    LET outs == [i \in 1..ZipLen(outputs, targets) |->
                    metric_max_over_ground_truths("f1_score", outputs[i], targets[i])]
    IN  RatMul(RatDiv(sum(outs), Rat(Len(outputs), 1)), Rat(100, 1))

\* ------------------------------------------------------------------------
\* computeLFEM
\* ------------------------------------------------------------------------
\* A logical form is a record [sel, conds, agg]; a condition is a tuple
\* <<column, operator, value>>.  What to_lf does is Raise or Return(lf).
\* A gold example is a record [answer, sql]; its sql is Return(gt) for a
\* logical form gt, with condition values in any case and possibly a
\* condition that lacks its value, or Raise when reading it raises.
Raise == <<>>
Return(value) == <<value>>

\* lines 142-148: the gold query with every condition value lower-cased;
\* lc[2] raises IndexError on a condition without a value and gt['conds']
\* raises when the example has no query
GoldRaises(sql) ==
    \/ sql = Raise
    \/ \E k \in 1..Len(sql[1].conds) : Len(sql[1].conds[k]) < 3

LowerConds(gt) ==
    [gt EXCEPT !.conds =
        [k \in 1..Len(gt.conds) |->
            <<gt.conds[k][1], gt.conds[k][2], lower(gt.conds[k][3])>>]]

\* the body of the try statement for example i: TRUE when lf == gt, FALSE
\* when they differ or when an exception was caught
TryCorrect(lf, ex) ==
    IF lf = Raise THEN FALSE
    ELSE IF GoldRaises(ex.sql) THEN FALSE
    ELSE lf[1] = LowerConds(ex.sql[1])

RECURSIVE LFEMLoop(_, _, _, _, _, _)
LFEMLoop(lfs, golds, idx, count, correct, text_answers) ==
    IF idx > Min(Len(lfs), Len(golds))
    THEN <<count, correct, text_answers>>
    ELSE LFEMLoop(lfs, golds, idx + 1,
                  count + 1,
                  IF TryCorrect(lfs[idx], golds[idx]) THEN correct + 1 ELSE correct,
                  Append(text_answers, <<lower(golds[idx].answer)>>))

\* an example counted only when its try statement ended without an exception
RECURSIVE LFEMLoop_count_in_try(_, _, _, _, _, _)
LFEMLoop_count_in_try(lfs, golds, idx, count, correct, text_answers) ==
    IF idx > Min(Len(lfs), Len(golds))
    THEN <<count, correct, text_answers>>
    ELSE LFEMLoop_count_in_try(lfs, golds, idx + 1,
                  IF lfs[idx] = Raise \/ GoldRaises(golds[idx].sql)
                  THEN count ELSE count + 1,
                  IF TryCorrect(lfs[idx], golds[idx]) THEN correct + 1 ELSE correct,
                  Append(text_answers, <<lower(golds[idx].answer)>>))

\* the division by count when no example was processed
ComputeLFEMRaises(lfs, golds) ==
    IF Min(Len(lfs), Len(golds)) = 0 THEN "ZeroDivisionError" ELSE None

computeLFEM_count_in_try(lfs, golds) ==
    LET answers == [i \in 1..Len(golds) |-> golds[i][1]]
        done == LFEMLoop_count_in_try(lfs, answers, 1, 0, 0, <<>>)
    IN  <<RatMul(Rat(done[2], done[1]), Rat(100, 1)), done[3]>>

\* computeLFEM(greedy, answer), the predictions given by what to_lf does
computeLFEM(lfs, golds) ==
    LET answers == [i \in 1..Len(golds) |-> golds[i][1]]
        done == LFEMLoop(lfs, answers, 1, 0, 0, <<>>)
    IN  <<RatMul(Rat(done[2], done[1]), Rat(100, 1)), done[3]>>

\* ------------------------------------------------------------------------
\* computeDialogue
\* ------------------------------------------------------------------------
\* ord(ch)
Ord(ch) ==
    CASE ch = "\t" -> 9   [] ch = " " -> 32  [] ch = "," -> 44  [] ch = "." -> 46
      [] ch = "1" -> 49   [] ch = "2" -> 50  [] ch = ":" -> 58  [] ch = ";" -> 59
      [] ch = "A" -> 65   [] ch = "N" -> 78  [] ch = "T" -> 84  [] ch = "_" -> 95
      [] ch = "a" -> 97   [] ch = "b" -> 98  [] ch = "d" -> 100 [] ch = "e" -> 101
      [] ch = "h" -> 104  [] ch = "n" -> 110 [] ch = "o" -> 111 [] ch = "t" -> 116
      [] ch = "x" -> 120  [] ch = "y" -> 121 [] ch = "U+2102" -> 8450

\* str < str: the order of the first characters that differ, or a proper prefix
RECURSIVE StrLess(_, _)
StrLess(a, b) ==
    IF b = <<>> THEN FALSE
    ELSE IF a = <<>> THEN TRUE
    ELSE IF Head(a) = Head(b) THEN StrLess(Tail(a), Tail(b))
    ELSE Ord(Head(a)) < Ord(Head(b))

\* str.split(sep) for a one-character separator: at least one piece
RECURSIVE SplitOnFrom(_, _, _, _)
SplitOnFrom(text, sep, i, cur) ==
    IF i > Len(text) THEN <<cur>>
    ELSE IF text[i] = sep
         THEN <<cur>> \o SplitOnFrom(text, sep, i + 1, <<>>)
         ELSE SplitOnFrom(text, sep, i + 1, Append(cur, text[i]))

split_on(text, sep) == SplitOnFrom(text, sep, 1, <<>>)

\* str.strip()
RECURSIVE lstrip(_)
lstrip(text) ==
    IF text # <<>> /\ Head(text) \in Whitespace THEN lstrip(Tail(text)) ELSE text

RECURSIVE rstrip(_)
rstrip(text) ==
    IF text # <<>> /\ text[Len(text)] \in Whitespace
    THEN rstrip(SubSeq(text, 1, Len(text) - 1))
    ELSE text

strip(text) == rstrip(lstrip(text))

\* A dict is a function from its keys.
EmptyDict == <<>>
DictSet(d, key, value) ==
    [k \in (DOMAIN d) \cup {key} |-> IF k = key THEN value ELSE d[k]]

NoneStr == <<"N", "o", "n", "e">>

\* lines 449-454: the pairs of the inform items that split into a key and
\* a value on ':', a later item replacing an earlier one of the same key
RECURSIVE InformPairs(_, _, _)
InformPairs(inform, n, inform_pairs) ==
    IF n > Len(inform) THEN inform_pairs
    ELSE LET kv == split_on(inform[n], ":")
         IN  IF Len(kv) = 2
             THEN InformPairs(inform, n + 1,
                              DictSet(inform_pairs, strip(kv[1]), strip(kv[2])))
             ELSE InformPairs(inform, n + 1, inform_pairs)

StripAll(items) == [k \in 1..Len(items) |-> strip(items[k])]

\* lines 444-454: the exception raised inside the outer try block, which is
\* the ValueError of unpacking line.split(';') into inform and request; the
\* ValueError of unpacking an inform item is caught by the inner handler
DeltaTryRaises(text) ==
    IF text = <<"N", "o", "n", "e">> \/ strip(text) = <<>> \/ strip(text) = <<";">>
    THEN None
    ELSE IF Len(split_on(text, ";")) # 2 THEN "ValueError" ELSE None

\* lines 455-459: except BaseException: pass, and finally: return delta_state,
\* which ends the call normally whatever was raised
ToDeltaStateRaises(text) ==
    IF DeltaTryRaises(text) = None THEN None ELSE None

\* lines 449-451 without the inner try: an inform item that does not unpack
\* raises into the outer handler, which returns the empty delta state
to_delta_state_item_raises(text) ==
    LET empty == [inform |-> <<>>, request |-> <<>>]
        parts == split_on(text, ";")
    IN  IF text = <<"N", "o", "n", "e">> \/ strip(text) = <<>> \/ strip(text) = <<";">>
        THEN empty
        ELSE IF Len(parts) # 2 THEN empty
        ELSE LET inform == StripAll(split_on(strip(parts[1]), ","))
                 request == StripAll(split_on(strip(parts[2]), ","))
             IN  IF \E n \in 1..Len(inform) : Len(split_on(inform[n], ":")) # 2
                 THEN empty
                 ELSE [inform |-> InformPairs(inform, 1, <<>>), request |-> request]

to_delta_state(text) ==
    LET empty == [inform |-> EmptyDict, request |-> EmptyDict]
        parts == split_on(text, ";")
    IN  IF text = NoneStr \/ strip(text) = <<>> \/ strip(text) = <<";">>
        THEN empty
        ELSE IF Len(parts) # 2 THEN empty
        ELSE LET inform == StripAll(split_on(strip(parts[1]), ","))
                 request == StripAll(split_on(strip(parts[2]), ","))
             IN  [inform |-> InformPairs(inform, 1, EmptyDict), request |-> request]

\* the state replaced by the slots of the turn
update_state_replaced(state, delta) == delta

\* every slot of delta written into state
update_state(state, delta) ==
    [k \in (DOMAIN state) \cup (DOMAIN delta) |->
        IF k \in DOMAIN delta THEN delta[k] ELSE state[k]]

DictCmpOneWay(a, b) == \A k1 \in DOMAIN a : k1 \in DOMAIN b /\ a[k1] = b[k1]
dict_cmp(d1, d2) == DictCmpOneWay(d1, d2) /\ DictCmpOneWay(d2, d1)

\* an example is the tuple <<turn identifier, prediction, gold state, idx>>;
\* tuple < tuple, as list.sort() compares the examples
ExampleLess(e1, e2) ==
    IF e1[1] # e2[1] THEN StrLess(e1[1], e2[1])
    ELSE IF e1[2] # e2[2] THEN StrLess(e1[2], e2[2])
    ELSE IF e1[3] # e2[3] THEN StrLess(e1[3], e2[3])
    ELSE e1[4] < e2[4]

RECURSIVE SortExamples(_)
SortExamples(examples) ==
    IF examples = {} THEN <<>>
    ELSE LET least == CHOOSE x \in examples :
                          \A y \in examples \ {x} : ExampleLess(x, y)
         IN  <<least>> \o SortExamples(examples \ {least})

\* ldt.split('_')[:-1]
DialoguePrefix(turn) ==
    LET fields == split_on(turn, "_") IN SubSeq(fields, 1, Len(fields) - 1)

\* lines 490-503: the loop over the sorted examples; ldt is <<>> for None and
\* <<turn>> otherwise; the counters are <<joint goal, turn request, turn goal>>
RECURSIVE DialogueLoop(_, _, _, _, _, _)
DialogueLoop(examples, n, ldt, state, answer_state, positives) ==
    IF n > Len(examples) THEN positives
    ELSE LET ex == examples[n]
             reset == ldt = <<>> \/ DialoguePrefix(ldt[1]) # DialoguePrefix(ex[1])
             turn_delta_state == to_delta_state(ex[2])
             answer_delta_state == to_delta_state(ex[3])
             state1 == update_state(IF reset THEN EmptyDict ELSE state,
                                    turn_delta_state.inform)
             answer_state1 == update_state(IF reset THEN EmptyDict ELSE answer_state,
                                           answer_delta_state.inform)
         IN  DialogueLoop(examples, n + 1,
                 IF reset THEN <<ex[1]>> ELSE ldt,
                 state1, answer_state1,
                 <<positives[1] + (IF dict_cmp(state1, answer_state1) THEN 1 ELSE 0),
                   positives[2] + (IF turn_delta_state.request = answer_delta_state.request
                                   THEN 1 ELSE 0),
                   positives[3] + (IF dict_cmp(turn_delta_state.inform,
                                               answer_delta_state.inform)
                                   THEN 1 ELSE 0)>>)

\* the division by len(examples) when there is no example
ComputeDialogueRaises(outputs, golds) ==
    IF ZipLen(outputs, golds) = 0 THEN "ZeroDivisionError" ELSE None

\* the answers returned in the order of the sorted examples
computeDialogue_sorted_answers(outputs, golds) ==
    LET examples == SortExamples({<<golds[i][1][1], outputs[i], golds[i][1][2], i - 1>> :
                                     i \in 1..ZipLen(outputs, golds)})
        positives == DialogueLoop(examples, 1, <<>>, EmptyDict, EmptyDict, <<0, 0, 0>>)
        joint_goal_em == RatMul(Rat(positives[1], Len(examples)), Rat(100, 1))
        turn_request_em == RatMul(Rat(positives[2], Len(examples)), Rat(100, 1))
        turn_goal_em == RatMul(Rat(positives[3], Len(examples)), Rat(100, 1))
    IN  <<joint_goal_em, turn_request_em, turn_goal_em,
          [i \in 1..Len(examples) |-> <<examples[i][3]>>]>>

\* computeDialogue(greedy, answer); answer[i] is <<<<turn identifier, gold state>>>>
computeDialogue(outputs, golds) ==
    LET examples == SortExamples({<<golds[i][1][1], outputs[i], golds[i][1][2], i - 1>> :
                                     i \in 1..ZipLen(outputs, golds)})
        positives == DialogueLoop(examples, 1, <<>>, EmptyDict, EmptyDict, <<0, 0, 0>>)
        joint_goal_em == RatMul(Rat(positives[1], Len(examples)), Rat(100, 1))
        turn_request_em == RatMul(Rat(positives[2], Len(examples)), Rat(100, 1))
        turn_goal_em == RatMul(Rat(positives[3], Len(examples)), Rat(100, 1))
        by_idx == [i \in 1..Len(examples) |->
                      CHOOSE x \in {examples[k] : k \in 1..Len(examples)} : x[4] = i - 1]
    IN  <<joint_goal_em, turn_request_em, turn_goal_em,
          [i \in 1..Len(examples) |-> <<by_idx[i][3]>>]>>

\* ------------------------------------------------------------------------
\* compute_metrics
\* ------------------------------------------------------------------------
\* the value of a metric that an external library computes (sacrebleu,
\* pyrouge, seqeval, datasets) or that no property reads
NotModelled == <<0, 0>>

\* name in requested_metrics
Requested(requested, name) == \E k \in 1..Len(requested) : requested[k] = name

\* line 628
norm_greedy(outputs) == [i \in 1..Len(outputs) |-> normalize_text(outputs[i])]

\* the gold answers left as they are
norm_answer_not_normalized(golds) == golds

\* line 629
norm_answer(golds) ==
    [i \in 1..Len(golds) |->
        [k \in 1..Len(golds[i]) |-> normalize_text(golds[i][k])]]

\* lines 531-532: every answer wrapped in a list unless the first one is a list
WrapAnswer(golds, is_list) ==
    IF is_list THEN golds ELSE [i \in 1..Len(golds) |-> <<golds[i]>>]

\* the text answers of the SQL examples taken as they are given, not as
\* computeLFEM returns them
ReplacedAnswer_texts_as_given(outputs, golds, is_list, requested, lfs) ==
    LET answer0 == WrapAnswer(golds, is_list)
        answer1 == IF Requested(requested, "lfem")
                   THEN [i \in 1..Len(answer0) |-> <<answer0[i][1].answer>>]
                   ELSE answer0
    IN  IF Requested(requested, "joint_goal_em")
        THEN computeDialogue(outputs, answer1)[4] ELSE answer1

\* lines 533-544: the answers after computeLFEM and computeDialogue replaced them
ReplacedAnswer(outputs, golds, is_list, requested, lfs) ==
    LET answer0 == WrapAnswer(golds, is_list)
        answer1 == IF Requested(requested, "lfem")
                   THEN computeLFEM(lfs, answer0)[2] ELSE answer0
    IN  IF Requested(requested, "joint_goal_em")
        THEN computeDialogue(outputs, answer1)[4] ELSE answer1

\* <<key, value>> if the name is requested
Item(requested, name, value) ==
    IF Requested(requested, name) THEN << <<name, value>> >> ELSE <<>>

\* lines 529-642: zip(metric_keys, metric_values)
MetricItems(outputs, golds, is_list, requested, lfs) ==
    LET answer0 == WrapAnswer(golds, is_list)
        answer1 == IF Requested(requested, "lfem")
                   THEN computeLFEM(lfs, answer0)[2] ELSE answer0
        dialogue == computeDialogue(outputs, answer1)
        final == ReplacedAnswer(outputs, golds, is_list, requested, lfs)
    IN  Item(requested, "lfem", computeLFEM(lfs, answer0)[1])
        \o (IF Requested(requested, "joint_goal_em")
            THEN << <<"joint_goal_em", dialogue[1]>>,
                    <<"turn_request_em", dialogue[2]>>,
                    <<"turn_goal_em", dialogue[3]>>,
                    <<"avg_dialogue",
                      RatDiv(RatAdd(dialogue[1], dialogue[2]), Rat(2, 1))>> >>
            ELSE <<>>)
        \o << <<"em", computeEM(outputs, final)>> >>
        \o Item(requested, "pem", NotModelled)
        \o Item(requested, "sm", NotModelled)
        \o Item(requested, "ter", NotModelled)
        \o Item(requested, "bertscore", NotModelled)
        \o Item(requested, "casedbleu", NotModelled)
        \o Item(requested, "bleu", NotModelled)
        \o Item(requested, "t5_bleu", NotModelled)
        \o Item(requested, "nmt_bleu", NotModelled)
        \o (IF Requested(requested, "avg_rouge")
            THEN << <<"rouge1", NotModelled>>, <<"rouge2", NotModelled>>,
                    <<"rougeL", NotModelled>>, <<"avg_rouge", NotModelled>> >>
            ELSE <<>>)
        \o Item(requested, "sc_precision", NotModelled)
        \o Item(requested, "sc_recall", NotModelled)
        \o Item(requested, "sc_f1", NotModelled)
        \o Item(requested, "f1", computeF1(outputs, final))
        \o Item(requested, "ner_f1_IOB1", NotModelled)
        \o Item(requested, "ner_f1", NotModelled)
        \o Item(requested, "nf1", computeF1(norm_greedy(outputs), norm_answer(final)))
        \o Item(requested, "nem", computeEM(norm_greedy(outputs), norm_answer(final)))
        \o (IF Requested(requested, "corpus_f1")
            THEN << <<"corpus_f1", NotModelled>>, <<"precision", NotModelled>>,
                    <<"recall", NotModelled>> >>
            ELSE <<>>)

\* lines 603-607, convert_IOB2_to_IOB1(labels) as compute_metrics calls it:
\* labels is the list of the label sequences, so label is one whole
\* sequence, label[0] its first label and label[2:] its labels from the
\* third on. cur_category is <<>> for None and <<category>> otherwise. The
\* value is <<exception raised or None, labels when the loop ends>>:
\* IndexError is raised by label[0] of an empty sequence, TypeError by
\* "I" + label[1:], a str and a list.
RECURSIVE ConvertLoop(_, _, _)
ConvertLoop(labels, n, cur_category) ==
    IF n > Len(labels) THEN <<None, labels>>
    ELSE LET label == labels[n]
         IN  IF label = <<>> THEN <<"IndexError", labels>>
             ELSE IF label[1] = <<"B">> /\ <<SubSeq(label, 3, Len(label))>> # cur_category
                  THEN <<"TypeError", labels>>
                  ELSE ConvertLoop(labels, n + 1, <<SubSeq(label, 3, Len(label))>>)

convert_IOB2_to_IOB1(labels) == ConvertLoop(labels, 1, <<>>)

\* lines 600-601 and 609-610: <<greedy_processed, answer_processed>> as they
\* are given to seq_metrics.f1_score
ProcessedLabels(outputs, golds) ==
    <<convert_IOB2_to_IOB1([i \in 1..Len(outputs) |-> split(outputs[i])])[2],
      convert_IOB2_to_IOB1([i \in 1..Len(golds) |-> split(golds[i][1])])[2]>>

\* the exception that ends lines 599-617
NerF1IOB1Raises(outputs, golds) ==
    LET first == convert_IOB2_to_IOB1([i \in 1..Len(outputs) |-> split(outputs[i])])
        second == convert_IOB2_to_IOB1([i \in 1..Len(golds) |-> split(golds[i][1])])
    IN  IF first[1] # None THEN first[1] ELSE second[1]

HasKey(items, key) == \E k \in 1..Len(items) : items[k][1] = key

\* dict(items)[key]: the value of the last item of that key
DictGet(items, key) ==
    LET last == CHOOSE k \in 1..Len(items) :
                    /\ items[k][1] = key
                    /\ \A m \in (k + 1)..Len(items) : items[m][1] # key
    IN  items[last][2]

\* line 645: OrderedDict((key, metric_dict[key]) for key in requested_metrics),
\* a key requested twice staying where it was first inserted
RECURSIVE OrderedDict(_, _, _)
OrderedDict(items, requested, n) ==
    IF n > Len(requested) THEN <<>>
    ELSE IF \E m \in 1..(n - 1) : requested[m] = requested[n]
         THEN OrderedDict(items, requested, n + 1)
         ELSE << <<requested[n], DictGet(items, requested[n])>> >>
                  \o OrderedDict(items, requested, n + 1)

\* the exception compute_metrics ends with, the first one in program order
ComputeMetricsRaises(outputs, golds, is_list, requested, lfs) ==
    LET answer0 == WrapAnswer(golds, is_list)
        answer1 == IF Requested(requested, "lfem")
                   THEN computeLFEM(lfs, answer0)[2] ELSE answer0
        final == ReplacedAnswer(outputs, golds, is_list, requested, lfs)
    IN  IF Len(golds) = 0 THEN "IndexError"
        ELSE IF Requested(requested, "lfem") /\ ComputeLFEMRaises(lfs, answer0) # None
             THEN ComputeLFEMRaises(lfs, answer0)
        ELSE IF Requested(requested, "joint_goal_em")
                    /\ ComputeDialogueRaises(outputs, answer1) # None
             THEN ComputeDialogueRaises(outputs, answer1)
        ELSE IF ComputeScoreRaises(outputs, final) # None
             THEN ComputeScoreRaises(outputs, final)
        ELSE IF \E k \in 1..Len(requested) :
                    ~HasKey(MetricItems(outputs, golds, is_list, requested, lfs),
                            requested[k])
             THEN "KeyError"
        ELSE None

\* compute_metrics(greedy, answer, requested_metrics, lang); lang is read by
\* the bertscore metric only
compute_metrics(outputs, golds, is_list, requested, lfs) ==
    [metric_dict |-> OrderedDict(MetricItems(outputs, golds, is_list, requested, lfs),
                                 requested, 1),
     answer |-> ReplacedAnswer(outputs, golds, is_list, requested, lfs)]

\* ------------------------------------------------------------------------
\* BaseEntityDisambiguator
\* ------------------------------------------------------------------------
\* Positions are Python's: the first token is token 0, tokens[i] is toks[i + 1].

\* seq[a:b]
Slice(seq, a, b) == SubSeq(seq, a + 1, Min(b, Len(seq)))

\* seq[a:b] = items
SliceAssign(seq, a, b, items) ==
    Slice(seq, 0, Min(a, Len(seq))) \o items \o Slice(seq, b, Len(seq))

\* self.all_aliases = marisa_trie.Trie(self.alias2type.keys())
all_aliases == DOMAIN alias2type

\* self.unk_id, the id of the unknown type
unk_id == 0

\* self.typeqid2id, the id of every type of the database
typeqid2id == [type \in {"Q1", "Q2"} |-> IF type = "Q1" THEN 1 ELSE 2]

\* ned_utils.is_banned: the phrases that are never looked up
BANNED_PHRASES == { <<"a", " ", "b">> }
is_banned(word) == word \in BANNED_PHRASES

\* ned_utils.normalize_text: the text lower-cased, every run of two or more
\* whitespace characters replaced by one space
RECURSIVE CollapseFrom(_, _)
CollapseFrom(text, i) ==
    IF i > Len(text) THEN <<>>
    ELSE IF text[i] \in Whitespace /\ i < Len(text) /\ text[i + 1] \in Whitespace
         THEN LET after == CHOOSE k \in (i + 2)..(Len(text) + 1) :
                              /\ \A m \in i..(k - 1) : text[m] \in Whitespace
                              /\ k <= Len(text) => text[k] \notin Whitespace
              IN  <<" ">> \o CollapseFrom(text, after)
         ELSE <<text[i]>> \o CollapseFrom(text, i + 1)

ned_normalize_text(text) == CollapseFrom(lower(text), 1)

\* a used span is seen only when one of its ends lies strictly inside
\* [start, end)
has_overlap_ends_inside(start, end, used) ==
    \E k \in 1..Len(used) :
        \/ start < used[k][2] /\ used[k][2] < end
        \/ start < used[k][3] /\ used[k][3] < end

\* ned_utils.has_overlap: does [start, end) meet a span already used
has_overlap(start, end, used) ==
    \E k \in 1..Len(used) :
        start < used[k][3] /\ end > used[k][2]

\* marisa_trie.Trie.keys(prefix): the keys that start with the prefix
IsPrefix(prefix, key) ==
    Len(prefix) <= Len(key) /\ SubSeq(key, 1, Len(prefix)) = prefix
keys(prefix) == {key \in all_aliases : IsPrefix(prefix, key)}

\* sorted(items, key=len, reverse=True): the longest string first
RECURSIVE sorted(_)
sorted(items) ==
    IF items = {} THEN <<>>
    ELSE LET longest == CHOOSE x \in items : \A y \in items : Len(y) <= Len(x)
         IN  <<longest>> \o sorted(items \ {longest})

\* lines 130-134: the number j of tokens of the key matched from position cur
RECURSIVE MatchKey(_, _, _, _)
MatchKey(toks, cur, key_tokenized, j) ==
    IF cur < Len(toks) /\ j < Len(key_tokenized)
           /\ toks[cur + 1] = key_tokenized[j + 1]
    THEN MatchKey(toks, cur + 1, key_tokenized, j + 1)
    ELSE j

\* lines 125-146: the first key of matched_items, from the n-th on, that
\* matches at position i and is not banned: <<found, cur, type>>
RECURSIVE ForKey(_, _, _, _)
ForKey(toks, i, matched_items, n) ==
    IF n > Len(matched_items) THEN <<FALSE, i, "">>
    ELSE LET key == matched_items[n]
             type == alias2type[key]
             key_tokenized == split(key)
             j == MatchKey(toks, i, key_tokenized, 0)
         IN  IF j = Len(key_tokenized) /\ ~is_banned(join(key_tokenized))
             THEN <<TRUE, i + j, type>>
             ELSE ForKey(toks, i, matched_items, n + 1)

RECURSIVE SmallerWhile(_, _, _)
SmallerWhile(toks, i, out) ==
    IF ~(i < Len(toks)) THEN out
    ELSE LET matched_items == sorted(keys(toks[i + 1]))
             m == ForKey(toks, i, matched_items, 1)
         IN  IF m[1]
             THEN SmallerWhile(toks, m[2],
                      out \o [k \in 1..(m[2] - i) |->
                                 <<typeqid2id[m[3]] * max_features_size>>])
             ELSE SmallerWhile(toks, i + 1,
                      Append(out, <<unk_id * max_features_size>>))

lookup_smaller(toks) == SmallerWhile(toks, 0, <<>>)

\* lines 161-174: the greatest end > i with tokens[i:end] an alias, -1 if none
RECURSIVE LongerEnd(_, _, _)
LongerEnd(toks, i, end) ==
    IF ~(end > i) THEN -1
    ELSE IF join(Slice(toks, i, end)) \in all_aliases THEN end
    ELSE LongerEnd(toks, i, end - 1)

RECURSIVE LongerWhile(_, _, _)
LongerWhile(toks, i, out) ==
    IF ~(i < Len(toks)) THEN out
    ELSE LET end == LongerEnd(toks, i, Len(toks))
             tokens_str == join(Slice(toks, i, end))
         IN  IF end # -1
             THEN LongerWhile(toks, end,
                      out \o [k \in 1..(end - i) |->
                                 <<typeqid2id[alias2type[tokens_str]] * max_features_size>>])
             ELSE LongerWhile(toks, i + 1,
                      Append(out, <<unk_id * max_features_size>>))

\* one annotation appended for a matched span, not one per token of the span
RECURSIVE LongerWhile_one_per_span(_, _, _)
LongerWhile_one_per_span(toks, i, out) ==
    IF ~(i < Len(toks)) THEN out
    ELSE LET end == LongerEnd(toks, i, Len(toks))
             tokens_str == join(Slice(toks, i, end))
         IN  IF end # -1
             THEN LongerWhile_one_per_span(toks, end,
                      Append(out, <<typeqid2id[alias2type[tokens_str]] * max_features_size>>))
             ELSE LongerWhile_one_per_span(toks, i + 1,
                      Append(out, <<unk_id * max_features_size>>))

lookup_longer_one_per_span(toks) == LongerWhile_one_per_span(toks, 0, <<>>)

lookup_longer(toks) == LongerWhile(toks, 0, <<>>)

\* [type_id] * self.max_features_size
Features(type_id) == [k \in 1..max_features_size |-> type_id]

\* lines 101-110: the n-grams from position start on, left to right
RECURSIVE GramsLoop(_, _, _, _)
GramsLoop(toks, n, start, used) ==
    IF start + n > Len(toks) THEN used
    ELSE LET end == start + n
             gram_text == ned_normalize_text(join(Slice(toks, start, end)))
         IN  IF /\ ~is_banned(gram_text)
                /\ gram_text \notin verbs
                /\ gram_text \in all_aliases
                /\ ~has_overlap(start, end, used)
             THEN GramsLoop(toks, n, start + 1,
                      Append(used,
                             <<typeqid2id[alias2type[gram_text]], start, end>>))
             ELSE GramsLoop(toks, n, start + 1, used)

\* line 97: for n in range(max_entity_len, min_entity_len - 1, -1)
RECURSIVE LengthsLoop(_, _, _, _)
LengthsLoop(toks, n, min_len, used) ==
    IF n < min_len THEN used
    ELSE LengthsLoop(toks, n - 1, min_len, GramsLoop(toks, n, 0, used))

\* lines 112-113
RECURSIVE AssignUsed(_, _, _)
AssignUsed(out, used, k) ==
    IF k > Len(used) THEN out
    ELSE LET type_id == used[k][1]
             beg == used[k][2]
             end == used[k][3]
         IN  AssignUsed(SliceAssign(out, beg, end,
                                    [m \in 1..(end - beg) |-> Features(type_id)]),
                        used, k + 1)

\* lines 92-110: used_aliases when the loops are over
UsedAliases(toks, min_len, max_len) ==
    LET max_n == Min(max_len, Len(toks))
        min_n == Min(min_len, Len(toks))
    IN  LengthsLoop(toks, max_n, min_n, <<>>)

lookup_ngrams(toks, min_len, max_len) ==
    LET unknown == [k \in 1..Len(toks) |-> Features(unk_id)]
    IN  AssignUsed(unknown, UsedAliases(toks, min_len, max_len), 1)

\* str.index(sub): the least position at which sub occurs in text, -1 when
\* it does not occur (index then raises ValueError)
Index(text, sub) ==
    LET found == {i \in 0..(Len(text) - Len(sub)) :
                     SubSeq(text, i + 1, i + Len(sub)) = sub}
    IN  IF found = {} THEN -1
        ELSE CHOOSE i \in found : \A other \in found : i <= other

\* lines 186-193: the entities from the n-th on
RECURSIVE EntitiesLoop(_, _, _, _)
EntitiesLoop(toks, ents, n, out) ==
    IF n > Len(ents) THEN out
    ELSE LET ent == ents[n]
             tokens_text == join(toks)
             ent_num_tokens == Len(split_on(ent, " "))
             idx == Index(tokens_text, ent)
             token_pos == Len(split_on(strip(SubSeq(tokens_text, 1, idx)), " "))
             type == IF alias2type[ent] \in DOMAIN typeqid2id
                     THEN typeqid2id[alias2type[ent]]
                     ELSE unk_id
         IN  IF ent \notin all_aliases
             THEN EntitiesLoop(toks, ents, n + 1, out)
             ELSE EntitiesLoop(toks, ents, n + 1,
                      SliceAssign(out, token_pos, token_pos + ent_num_tokens,
                                  [m \in 1..ent_num_tokens |-> Features(type)]))

\* line 190: tokens_text.index(ent) of an alias that the sentence does not hold
LookupEntitiesRaises(toks, ents) ==
    IF \E n \in 1..Len(ents) :
           ents[n] \in all_aliases /\ Index(join(toks), ents[n]) = -1
    THEN "ValueError"
    ELSE None

lookup_entities(toks, ents) ==
    EntitiesLoop(toks, ents, 1, [k \in 1..Len(toks) |-> Features(unk_id)])

lookup(toks, method, min_len, max_len) ==
    IF method = "smaller_first" THEN lookup_smaller(toks)
    ELSE IF method = "longer_first" THEN lookup_longer(toks)
    ELSE IF method = "ngrams" THEN lookup_ngrams(toks, min_len, max_len)
    ELSE [k \in 1..Len(toks) |-> Features(unk_id)]

\* ------------------------------------------------------------------------
\* Specification of normalize_text
\* ------------------------------------------------------------------------
InitNormalize ==
    /\ pc = "normalize_text"
    /\ s \in StringsOver(Chars, MaxTextLen)
    /\ normalized = None
    /\ prediction = None /\ ground_truth = None /\ f1 = None
    /\ line = None /\ delta_state = None
    /\ ScoreIdle /\ NedIdle

CallNormalizeText ==
    /\ pc = "normalize_text"
    /\ normalized' = normalize_text(s)
    /\ pc' = "normalized"
    /\ UNCHANGED <<s, prediction, ground_truth, f1, line, delta_state>>
    /\ UNCHANGED <<scoreVars, nedVars>>

NextNormalize == CallNormalizeText

SpecNormalize == InitNormalize /\ [][NextNormalize]_vars

\* ------------------------------------------------------------------------
\* Specification of f1_score
\* ------------------------------------------------------------------------
F1Chars == {"a", "b", " "}

InitF1 ==
    /\ pc = "f1_score"
    /\ prediction \in StringsOver(F1Chars, MaxF1Len)
    /\ ground_truth \in StringsOver(F1Chars, MaxF1Len)
    /\ f1 = None
    /\ line = None /\ delta_state = None
    /\ s = None /\ normalized = None
    /\ ScoreIdle /\ NedIdle

CallF1Score ==
    /\ pc = "f1_score"
    /\ f1' = f1_score(prediction, ground_truth)
    /\ pc' = "scored"
    /\ UNCHANGED <<s, normalized, prediction, ground_truth, line, delta_state>>
    /\ UNCHANGED <<scoreVars, nedVars>>

NextF1 == CallF1Score

SpecF1 == InitF1 /\ [][NextF1]_vars

\* ------------------------------------------------------------------------
\* Specification of computeEM and computeF1
\* ------------------------------------------------------------------------
EMPool == { <<"b">>, <<"t", " ", "b">>, <<"t">> }

ListsOver(items, n) == UNION {[1..k -> items] : k \in 0..n}

InitScore ==
    /\ pc = "start"
    /\ greedy \in ListsOver(EMPool, MaxExamples)
    /\ answer \in ListsOver(ListsOver(EMPool, MaxGolds), MaxExamples)
    /\ result = None /\ raised = None /\ to_lf = None
    /\ requested_metrics = None /\ answer_is_list = None
    /\ TextIdle /\ NedIdle

CallComputeEM ==
    /\ pc = "start"
    /\ raised' = ComputeScoreRaises(greedy, answer)
    /\ result' = IF raised' = None THEN computeEM(greedy, answer) ELSE None
    /\ pc' = "computeEM"
    /\ UNCHANGED <<greedy, answer, to_lf, requested_metrics, answer_is_list>>
    /\ UNCHANGED <<textVars, nedVars>>

CallComputeF1 ==
    /\ pc = "start"
    /\ raised' = ComputeScoreRaises(greedy, answer)
    /\ result' = IF raised' = None THEN computeF1(greedy, answer) ELSE None
    /\ pc' = "computeF1"
    /\ UNCHANGED <<greedy, answer, to_lf, requested_metrics, answer_is_list>>
    /\ UNCHANGED <<textVars, nedVars>>

NextScore == CallComputeEM \/ CallComputeF1

SpecScore == InitScore /\ [][NextScore]_vars

\* ------------------------------------------------------------------------
\* Specification of computeLFEM
\* ------------------------------------------------------------------------
Cond(value) == <<0, 0, value>>
LogicalForm(sel, conds) == [sel |-> sel, conds |-> conds, agg |-> 0]

\* what to_lf may do with a prediction
ToLfOutcomes ==
    {Raise,
     Return(LogicalForm(0, <<>>)),
     Return(LogicalForm(0, <<Cond(<<"a">>)>>)),
     Return(LogicalForm(1, <<Cond(<<"a">>)>>))}

\* the gold queries: well-formed, with an upper-case value, with a condition
\* that has no value, and missing
GoldQueries ==
    {Raise,
     Return(LogicalForm(0, <<>>)),
     Return(LogicalForm(0, <<Cond(<<"a">>)>>)),
     Return(LogicalForm(0, <<Cond(<<"A">>)>>)),
     Return(LogicalForm(0, << <<0, 0>> >>))}

GoldExamples == [answer : {<<"t">>, <<"T">>}, sql : GoldQueries]

InitLFEM ==
    /\ pc = "start"
    /\ greedy \in ListsOver({<<"t">>}, MaxExamples)
    /\ to_lf \in [1..Len(greedy) -> ToLfOutcomes]
    /\ answer \in ListsOver({<<ex>> : ex \in GoldExamples}, MaxExamples)
    /\ result = None /\ raised = None
    /\ requested_metrics = None /\ answer_is_list = None
    /\ TextIdle /\ NedIdle

CallComputeLFEM ==
    /\ pc = "start"
    /\ raised' = ComputeLFEMRaises(to_lf, answer)
    /\ result' = IF raised' = None THEN computeLFEM(to_lf, answer) ELSE None
    /\ pc' = "computeLFEM"
    /\ UNCHANGED <<greedy, answer, to_lf, requested_metrics, answer_is_list>>
    /\ UNCHANGED <<textVars, nedVars>>

NextLFEM == CallComputeLFEM

SpecLFEM == InitLFEM /\ [][NextLFEM]_vars

\* ------------------------------------------------------------------------
\* Specification of to_delta_state
\* ------------------------------------------------------------------------
\* the characters of a belief state 'slot:value, ...;request, ...'
DeltaChars == {"x", "1", ":", ";", ",", " "}

InitDelta ==
    /\ pc = "start"
    /\ line \in StringsOver(DeltaChars, MaxLineLen) \cup {NoneStr}
    /\ delta_state = None
    /\ s = None /\ normalized = None
    /\ prediction = None /\ ground_truth = None /\ f1 = None
    /\ ScoreIdle /\ NedIdle

CallToDeltaState ==
    /\ pc = "start"
    /\ raised' = ToDeltaStateRaises(line)
    /\ delta_state' = to_delta_state(line)
    /\ pc' = "to_delta_state"
    /\ UNCHANGED <<line, s, normalized, prediction, ground_truth, f1>>
    /\ UNCHANGED <<greedy, answer, result, to_lf, requested_metrics, answer_is_list>>
    /\ UNCHANGED nedVars

NextDelta == CallToDeltaState

SpecDelta == InitDelta /\ [][NextDelta]_vars

\* ------------------------------------------------------------------------
\* Specification of computeDialogue
\* ------------------------------------------------------------------------
TurnIds == { <<"d", "_", "1">>, <<"d", "_", "2">>, <<"e", "_", "1">> }

\* belief states 'inform pairs;requests': "x:1;", "x:2;y", "x:1,y:2;",
\* "None", "x:1" (no ';') and "x,y:1; y" (an inform item without ':')
DialogueStates ==
    { <<"x", ":", "1", ";">>,
      <<"x", ":", "2", ";", "y">>,
      <<"x", ":", "1", ",", "y", ":", "2", ";">>,
      NoneStr,
      <<"x", ":", "1">>,
      <<"x", ",", "y", ":", "1", ";", " ", "y">> }

\* the gold states are well formed
GoldTurns == {<< <<turn, gold>> >> :
                 turn \in TurnIds,
                 gold \in DialogueStates \ { <<"x", ":", "1">>,
                                             <<"x", ",", "y", ":", "1", ";", " ", "y">> }}

InitDialogue ==
    /\ pc = "start"
    /\ \E n \in 0..MaxExamples :
          /\ greedy \in [1..n -> DialogueStates]
          /\ answer \in [1..n -> GoldTurns]
    /\ result = None /\ raised = None /\ to_lf = None
    /\ requested_metrics = None /\ answer_is_list = None
    /\ TextIdle /\ NedIdle

CallComputeDialogue ==
    /\ pc = "start"
    /\ raised' = ComputeDialogueRaises(greedy, answer)
    /\ result' = IF raised' = None THEN computeDialogue(greedy, answer) ELSE None
    /\ pc' = "computeDialogue"
    /\ UNCHANGED <<greedy, answer, to_lf, requested_metrics, answer_is_list>>
    /\ UNCHANGED <<textVars, nedVars>>

NextDialogue == CallComputeDialogue

SpecDialogue == InitDialogue /\ [][NextDialogue]_vars

\* ------------------------------------------------------------------------
\* Specification of compute_metrics
\* ------------------------------------------------------------------------
\* the names the docstring of compute_metrics lists
DocumentedMetrics ==
    {"em", "sm", "bleu", "rouge1", "rouge2", "rougeL", "avg_rouge", "f1", "nf1",
     "nem", "corpus_f1", "precision", "recall", "lfem", "joint_goal_em",
     "turn_request_em", "turn_goal_em", "avg_dialogue"}

\* predictions and gold answers in plain text: 'T b.', 'b', 'the t b', 't', 't b'
TextPredictions == { <<"T", " ", "b", ".">>, <<"b">> }
TextGolds ==
    { << <<"b">>, <<"t", "h", "e", " ", "t", " ", "b">> >>,
      << <<"t">> >> }
BareGolds == { <<"t", " ", "b">> }

\* the data of a task: plain text (the gold answers in lists or bare), SQL
\* examples scored by lfem, dialogue turns scored by joint_goal_em
TextData(n) ==
    [greedy : [1..n -> TextPredictions], answer : [1..n -> TextGolds],
     answer_is_list : {TRUE}, to_lf : {<<>>}]
    \cup
    [greedy : [1..n -> TextPredictions], answer : [1..n -> BareGolds],
     answer_is_list : {FALSE}, to_lf : {<<>>}]

SqlData(n) ==
    [greedy : [1..n -> { <<"t">> }],
     answer : [1..n -> { <<[answer |-> <<"T">>,
                            sql |-> Return(LogicalForm(0, <<Cond(<<"A">>)>>))]>>,
                         <<[answer |-> <<"t">>, sql |-> Raise]>> }],
     answer_is_list : {TRUE},
     to_lf : [1..n -> {Raise, Return(LogicalForm(0, <<Cond(<<"a">>)>>))}]]

DialogueData(n) ==
    [greedy : [1..n -> { <<"x", ":", "1", ";">>, <<"x", ":", "2", ";", "y">> }],
     answer : [1..n -> { << << <<"d", "_", "1">>, <<"x", ":", "1", ";">> >> >>,
                         << << <<"d", "_", "2">>, <<"x", ":", "2", ";", "y">> >> >> }],
     answer_is_list : {TRUE}, to_lf : {<<>>}]

\* the answers have the shape the requested metrics read: lfem reads SQL
\* examples and joint_goal_em reads dialogue turns, so they are not requested
\* together
InitMetrics ==
    /\ pc = "start"
    /\ requested_metrics \in ListsOver(DocumentedMetrics, MaxRequested)
    /\ ~(Requested(requested_metrics, "lfem")
            /\ Requested(requested_metrics, "joint_goal_em"))
    /\ \E n \in 1..MaxExamples :
          \E data \in (IF Requested(requested_metrics, "lfem") THEN SqlData(n)
                       ELSE IF Requested(requested_metrics, "joint_goal_em")
                            THEN DialogueData(n)
                       ELSE TextData(n)) :
              /\ greedy = data.greedy
              /\ answer = data.answer
              /\ answer_is_list = data.answer_is_list
              /\ to_lf = data.to_lf
    /\ result = None /\ raised = None
    /\ TextIdle /\ NedIdle

CallComputeMetrics ==
    /\ pc = "start"
    /\ raised' = ComputeMetricsRaises(greedy, answer, answer_is_list,
                                      requested_metrics, to_lf)
    /\ result' = IF raised' = None
                 THEN compute_metrics(greedy, answer, answer_is_list,
                                      requested_metrics, to_lf)
                 ELSE None
    /\ pc' = "compute_metrics"
    /\ UNCHANGED <<greedy, answer, to_lf, requested_metrics, answer_is_list>>
    /\ UNCHANGED <<textVars, nedVars>>

NextMetrics == CallComputeMetrics

SpecMetrics == InitMetrics /\ [][NextMetrics]_vars

\* ------------------------------------------------------------------------
\* Specification of the 'ner_f1_IOB1' step of compute_metrics
\* ------------------------------------------------------------------------
\* label sequences in IOB2: 'B-X O', 'B-X B-X', 'O B-Y I-Y', 'B O' and ''
LabelStrings ==
    { <<"B", "-", "X", " ", "O">>,
      <<"B", "-", "X", " ", "B", "-", "X">>,
      <<"O", " ", "B", "-", "Y", " ", "I", "-", "Y">>,
      <<"B", " ", "O">>,
      <<>> }

InitNer ==
    /\ pc = "start"
    /\ requested_metrics = <<"ner_f1_IOB1">>
    /\ answer_is_list = TRUE
    /\ \E n \in 1..MaxExamples :
          /\ greedy \in [1..n -> LabelStrings]
          /\ answer \in [1..n -> {<<gold>> : gold \in LabelStrings}]
    /\ result = None /\ raised = None /\ to_lf = None
    /\ TextIdle /\ NedIdle

\* lines 599-612, up to the call of seq_metrics.f1_score
CallNerF1IOB1 ==
    /\ pc = "start"
    /\ raised' = NerF1IOB1Raises(greedy, answer)
    /\ result' = IF raised' = None THEN ProcessedLabels(greedy, answer) ELSE None
    /\ pc' = "ner_f1_IOB1"
    /\ UNCHANGED <<greedy, answer, to_lf, requested_metrics, answer_is_list>>
    /\ UNCHANGED <<textVars, nedVars>>

NextNer == CallNerF1IOB1

SpecNer == InitNer /\ [][NextNer]_vars

\* ------------------------------------------------------------------------
\* Specification of BaseEntityDisambiguator.lookup
\* ------------------------------------------------------------------------
\* the alias database: alias |-> type
AliasTypes ==
    [alias \in { <<"a">>, <<"a", " ", "b">>, <<"a", " ", "b", " ", "a">>,
                 <<"a", "b">>, <<"b", " ", "a">>, <<"a", " ", "a">> } |->
        IF alias \in { <<"a">>, <<"a", " ", "b", " ", "a">> } THEN "Q1" ELSE "Q2"]

\* the tokens of sentence.split(' '): words, and the empty string between
\* two consecutive spaces
TokenPool == { <<"a">>, <<"b">>, <<"a", "b">>, <<>> }

LookupMethods == {"smaller_first", "longer_first", "ngrams", "none"}

\* <<min_entity_len, max_entity_len>>; <<2, 4>> is the default
EntityLens == { <<1, 2>>, <<2, 4>>, <<2, 2>> }

InitLookup ==
    /\ pc = "start"
    /\ alias2type \in {[alias \in known |-> AliasTypes[alias]] :
                          known \in SUBSET (DOMAIN AliasTypes)}
    /\ max_features_size \in 1..MaxFeaturesSize
    /\ tokens \in ListsOver(TokenPool, MaxTokens)
    /\ database_lookup_method \in LookupMethods
    /\ \E lens \in EntityLens :
          /\ database_lookup_method # "ngrams" => lens = <<2, 4>>
          /\ min_entity_len = lens[1]
          /\ max_entity_len = lens[2]
    /\ verbs \in IF database_lookup_method = "ngrams"
                 THEN SUBSET ({ <<"a">> } \cap {tokens[k] : k \in 1..Len(tokens)})
                 ELSE { {} }
    /\ tokens_type_ids = None
    /\ used_aliases = None /\ entities = None
    /\ TextIdle /\ ScoreIdle

CallLookup ==
    /\ pc = "start"
    /\ tokens_type_ids' =
          lookup(tokens, database_lookup_method, min_entity_len, max_entity_len)
    /\ used_aliases' =
          IF database_lookup_method = "ngrams"
          THEN UsedAliases(tokens, min_entity_len, max_entity_len)
          ELSE <<>>
    /\ UNCHANGED entities
    /\ pc' = "lookup"
    /\ UNCHANGED <<alias2type, max_features_size, tokens, database_lookup_method,
                   min_entity_len, max_entity_len, verbs>>
    /\ UNCHANGED <<textVars, scoreVars>>

NextLookup == CallLookup

SpecLookup == InitLookup /\ [][NextLookup]_vars

\* ------------------------------------------------------------------------
\* Specification of BaseEntityDisambiguator.lookup_entities
\* ------------------------------------------------------------------------
\* the entities of an answer: 'a', 'b a', 'ab' and 'b'
EntityPool == { <<"a">>, <<"b", " ", "a">>, <<"a", "b">>, <<"b">> }

\* the aliases of the database among 'a', 'b a' and 'ab'
EntityAliases == { <<"a">>, <<"b", " ", "a">>, <<"a", "b">> }

InitEntities ==
    /\ pc = "start"
    /\ alias2type \in {[alias \in known |-> AliasTypes[alias]] :
                          known \in SUBSET EntityAliases}
    /\ max_features_size \in 1..MaxFeaturesSize
    /\ tokens \in ListsOver(TokenPool, MaxTokens)
    /\ entities \in ListsOver(EntityPool, MaxEntities)
    /\ database_lookup_method = None /\ min_entity_len = None
    /\ max_entity_len = None /\ verbs = None /\ used_aliases = None
    /\ tokens_type_ids = None
    /\ TextIdle /\ ScoreIdle

CallLookupEntities ==
    /\ pc = "start"
    /\ raised' = LookupEntitiesRaises(tokens, entities)
    /\ tokens_type_ids' = IF raised' = None
                          THEN lookup_entities(tokens, entities)
                          ELSE None
    /\ pc' = "lookup_entities"
    /\ UNCHANGED <<alias2type, max_features_size, tokens, entities,
                   database_lookup_method, min_entity_len, max_entity_len,
                   verbs, used_aliases>>
    /\ UNCHANGED <<greedy, answer, result, to_lf, requested_metrics, answer_is_list>>
    /\ UNCHANGED textVars

NextEntities == CallLookupEntities

SpecEntities == InitEntities /\ [][NextEntities]_vars

\* ------------------------------------------------------------------------
\* Properties of normalize_text
\* ------------------------------------------------------------------------
NoPunctuation(text) == \A i \in 1..Len(text) : text[i] \notin punctuation
NoArticleToken(text) ==
    \A i \in 1..Len(split(text)) :
        \A k \in 1..Len(Articles) : split(text)[i] # Articles[k]
NoOuterWhitespace(text) ==
    text # <<>> => text[1] \notin Whitespace /\ text[Len(text)] \notin Whitespace
NoWhitespaceRun(text) ==
    \A i \in 1..(Len(text) - 1) :
        ~(text[i] \in Whitespace /\ text[i + 1] \in Whitespace)

\* C5 as stated: the result of normalize_text contains no upper-case letter,
\* no punctuation character, no token 'a', 'an' or 'the', no leading or
\* trailing whitespace and no two consecutive whitespace characters.
C5_AsStated ==
    pc = "normalized" =>
        /\ \A i \in 1..Len(normalized) : normalized[i] \notin UpperLetters
        /\ NoPunctuation(normalized)
        /\ NoArticleToken(normalized)
        /\ NoOuterWhitespace(normalized)
        /\ NoWhitespaceRun(normalized)

\* C5 amended: the result of normalize_text contains no upper-case letter
\* that has a lower-case form, no punctuation character, no token 'a', 'an'
\* or 'the', no leading or trailing whitespace and no two consecutive
\* whitespace characters.
C5_NormalizedText ==
    pc = "normalized" =>
        /\ \A i \in 1..Len(normalized) : normalized[i] \notin CasedUpper
        /\ NoPunctuation(normalized)
        /\ NoArticleToken(normalized)
        /\ NoOuterWhitespace(normalized)
        /\ NoWhitespaceRun(normalized)

\* an input with an upper-case article, punctuation and a tab: "A.\tb"
C5_Witness ==
    /\ pc = "normalized"
    /\ s = <<"A", ".", "\t", "b">>
    /\ normalized = <<"b">>

\* ------------------------------------------------------------------------
\* Properties of f1_score
\* ------------------------------------------------------------------------
RECURSIVE BagOfSeq(_)
BagOfSeq(q) ==
    IF q = <<>> THEN EmptyBag ELSE SetToBag({Head(q)}) (+) BagOfSeq(Tail(q))

TokenBag(text) == BagOfSeq(split(text))

\* the size of the multiset intersection of the two token lists
OverlapSize(a, b) == BagCardinality(TokenBag(a) (-) (TokenBag(a) (-) TokenBag(b)))

F1Formula(a, b, score) ==
    IF OverlapSize(a, b) = 0
    THEN score = Rat(0, 1)
    ELSE RatEq(score, Rat(2 * OverlapSize(a, b), Len(split(a)) + Len(split(b))))

\* C4 as stated: f1_score is 0 when the token overlap s is 0 and otherwise
\* 2*s / (number of prediction tokens + number of ground-truth tokens), it
\* is symmetric, and it is 1 exactly when the token multisets are equal.
C4_AsStated ==
    pc = "scored" =>
        /\ F1Formula(prediction, ground_truth, f1)
        /\ RatEq(f1, f1_score(ground_truth, prediction))
        /\ RatEq(f1, Rat(1, 1)) <=> (TokenBag(prediction) = TokenBag(ground_truth))

\* C4 amended: f1_score is 0 when the token overlap s is 0 and otherwise
\* 2*s / (number of prediction tokens + number of ground-truth tokens), it
\* is symmetric, and it is 1 exactly when the token multisets are equal and
\* not empty.
C4_F1Score ==
    pc = "scored" =>
        /\ F1Formula(prediction, ground_truth, f1)
        /\ RatEq(f1, f1_score(ground_truth, prediction))
        /\ RatEq(f1, Rat(1, 1)) <=>
              /\ TokenBag(prediction) = TokenBag(ground_truth)
              /\ split(prediction) # <<>>

\* a partial overlap with a repeated token: "a a" against "a b"
C4_Witness ==
    /\ pc = "scored"
    /\ split(prediction) = << <<"a">>, <<"a">> >>
    /\ split(ground_truth) = << <<"a">>, <<"b">> >>
    /\ RatEq(f1, Rat(1, 2))

\* ------------------------------------------------------------------------
\* Properties of computeEM
\* ------------------------------------------------------------------------
\* the examples whose prediction equals one of the example's gold answers
Matched(outputs, targets) ==
    {i \in 1..ZipLen(outputs, targets) :
        \E k \in 1..Len(targets[i]) : outputs[i] = targets[i][k]}

\* C2: computeEM is 100 times the number of examples whose prediction equals
\* one of the example's gold answers, divided by the number of predictions;
\* when there is a prediction and every example has a gold answer it lies
\* between 0 and 100 and is 100 exactly when every prediction matches.
C2_ComputeEM ==
    (pc = "computeEM" /\ raised = None) =>
        /\ RatEq(result, Rat(100 * Cardinality(Matched(greedy, answer)), Len(greedy)))
        /\ (/\ Len(greedy) > 0
            /\ Len(answer) >= Len(greedy)
            /\ \A i \in 1..Len(greedy) : answer[i] # <<>>) =>
              /\ ~RatLess(result, Rat(0, 1))
              /\ ~RatLess(Rat(100, 1), result)
              /\ RatEq(result, Rat(100, 1)) <=>
                    Matched(greedy, answer) = 1..Len(greedy)

\* two examples, the second matching its second gold answer only: 50
C2_Witness ==
    /\ pc = "computeEM" /\ raised = None
    /\ Len(greedy) = 2 /\ Len(answer) = 2
    /\ Matched(greedy, answer) = {2}
    /\ greedy[2] # answer[2][1]
    /\ RatEq(result, Rat(50, 1))

\* ------------------------------------------------------------------------
\* Properties of computeLFEM
\* ------------------------------------------------------------------------
Processed == Min(Len(greedy), Len(answer))

\* the examples whose logical form equals the lower-cased gold query
LFCorrect ==
    {i \in 1..Processed :
        /\ to_lf[i] # Raise
        /\ ~GoldRaises(answer[i][1].sql)
        /\ LET lf == to_lf[i][1]
               gt == answer[i][1].sql[1]
           IN  /\ lf.sel = gt.sel
               /\ lf.agg = gt.agg
               /\ Len(lf.conds) = Len(gt.conds)
               /\ \A k \in 1..Len(lf.conds) :
                     /\ lf.conds[k][1] = gt.conds[k][1]
                     /\ lf.conds[k][2] = gt.conds[k][2]
                     /\ lf.conds[k][3] = lower(gt.conds[k][3])}

\* C6: computeLFEM does not end with an exception when to_lf or the
\* comparison with the gold query raises: with at least one example the
\* result is 100 * (examples whose logical form equals the lower-cased gold
\* query) / (examples processed), an example that raised counting as
\* incorrect, and the text answers have one entry per processed example.
C6_ComputeLFEM ==
    (pc = "computeLFEM" /\ Processed > 0) =>
        /\ raised = None
        /\ RatEq(result[1], Rat(100 * Cardinality(LFCorrect), Processed))
        /\ Len(result[2]) = Processed
        /\ \A i \in 1..Processed : result[2][i] = <<lower(answer[i][1].answer)>>

\* to_lf raises on the first example, the second example is correct after
\* its gold value was lower-cased: 50
C6_Witness ==
    /\ pc = "computeLFEM"
    /\ Processed = 2
    /\ to_lf[1] = Raise
    /\ LFCorrect = {2}
    /\ answer[2][1].sql = Return(LogicalForm(0, <<Cond(<<"A">>)>>))
    /\ RatEq(result[1], Rat(50, 1))
    /\ Len(result[2]) = 2

\* ------------------------------------------------------------------------
\* Properties of BaseEntityDisambiguator.lookup
\* ------------------------------------------------------------------------
\* the spans [b, e) of tokens whose text is an alias and that hold token k
CoveringAliases(k) ==
    {ned_normalize_text(join(Slice(tokens, span[1], span[2]))) :
        span \in {sp \in (0..Len(tokens)) \X (0..Len(tokens)) :
                    /\ sp[1] <= k /\ k < sp[2]
                    /\ ned_normalize_text(join(Slice(tokens, sp[1], sp[2])))
                           \in all_aliases}}

\* the annotations the strategies write for a type id
Annotations(type_id) == {<<type_id * max_features_size>>, Features(type_id)}

\* C7: lookup returns one entry per token for every lookup method, entry k
\* being the annotation of token k: the unknown annotation, or that of the
\* type of an alias found in a span of tokens that holds token k.
C7_LookupLength ==
    pc = "lookup" =>
        /\ Len(tokens_type_ids) = Len(tokens)
        /\ \A k \in 0..(Len(tokens) - 1) :
              \/ tokens_type_ids[k + 1] \in Annotations(unk_id)
              \/ \E alias \in CoveringAliases(k) :
                    tokens_type_ids[k + 1] \in Annotations(typeqid2id[alias2type[alias]])

\* 'a b b' with the alias 'a b': two tokens of the alias, one unknown token
C7_Witness ==
    /\ pc = "lookup"
    /\ database_lookup_method = "longer_first"
    /\ tokens = << <<"a">>, <<"b">>, <<"b">> >>
    /\ <<"a", " ", "b">> \in all_aliases
    /\ Len(tokens_type_ids) = 3
    /\ tokens_type_ids[1] = tokens_type_ids[2]
    /\ tokens_type_ids[2] # tokens_type_ids[3]

TypeIds == {unk_id} \cup {typeqid2id[type] : type \in DOMAIN typeqid2id}

\* C8 as stated: every per-token annotation a lookup strategy returns is a
\* list of exactly max_features_size type ids.
C8_AsStated ==
    pc = "lookup" =>
        \A k \in 1..Len(tokens_type_ids) :
            /\ Len(tokens_type_ids[k]) = max_features_size
            /\ \A m \in 1..Len(tokens_type_ids[k]) : tokens_type_ids[k][m] \in TypeIds

\* the ends e > i of the spans tokens[i:e] whose space-joined text is an alias
AliasEnds(i) ==
    {e \in (i + 1)..Len(tokens) : join(Slice(tokens, i, e)) \in all_aliases}

Greatest(numbers) == CHOOSE x \in numbers : \A y \in numbers : y <= x

\* the annotations of greedy longest match from position i on
RECURSIVE GreedyLongest(_)
GreedyLongest(i) ==
    IF i >= Len(tokens) THEN <<>>
    ELSE IF AliasEnds(i) = {}
         THEN <<Features(unk_id)>> \o GreedyLongest(i + 1)
         ELSE LET end == Greatest(AliasEnds(i))
                  type == alias2type[join(Slice(tokens, i, end))]
              IN  [k \in 1..(end - i) |-> Features(typeqid2id[type])]
                      \o GreedyLongest(end)

\* C9 as stated: lookup_longer annotates, from left to right, the longest
\* span starting at the current position that is an alias with the type of
\* that alias and resumes after it, or annotates the token as unknown and
\* resumes at the next token.
C9_AsStated ==
    (pc = "lookup" /\ database_lookup_method = "longer_first") =>
        tokens_type_ids = GreedyLongest(0)

\* the aliases that are not banned and whose tokens are tokens[i:i+k], k > 0
MatchingAliases(i) ==
    {alias \in all_aliases :
        /\ ~is_banned(alias)
        /\ split(alias) # <<>>
        /\ split(alias) = Slice(tokens, i, i + Len(split(alias)))}

\* the annotations of lookup_smaller as claimed, from position i on
RECURSIVE LongestAlias(_)
LongestAlias(i) ==
    IF i >= Len(tokens) THEN <<>>
    ELSE IF MatchingAliases(i) = {}
         THEN <<Features(unk_id)>> \o LongestAlias(i + 1)
         ELSE LET alias == CHOOSE x \in MatchingAliases(i) :
                              \A y \in MatchingAliases(i) :
                                  Len(split(y)) <= Len(split(x))
                  k == Len(split(alias))
              IN  [m \in 1..k |-> Features(typeqid2id[alias2type[alias]])]
                      \o LongestAlias(i + k)

\* C10 as stated: lookup_smaller assigns, at each unprocessed position, the
\* type of the alias with the most tokens among the aliases that are not
\* banned and match the tokens at that position to the tokens matched, and
\* moves to the position after them.
C10_AsStated ==
    (pc = "lookup" /\ database_lookup_method = "smaller_first") =>
        tokens_type_ids = LongestAlias(0)

\* ------------------------------------------------------------------------
\* Properties of compute_metrics
\* ------------------------------------------------------------------------
\* the position at which a name is first requested
FirstRequested(name) ==
    CHOOSE k \in 1..Len(requested_metrics) :
        /\ requested_metrics[k] = name
        /\ \A m \in 1..(k - 1) : requested_metrics[m] # name

\* C1 as stated: for a list of documented metric names compute_metrics
\* returns a dictionary whose keys are exactly the requested names, in the
\* order in which they were requested.
C1_AsStated ==
    pc = "compute_metrics" =>
        /\ raised = None
        /\ LET metric_dict == result.metric_dict
               key(k) == metric_dict[k][1]
           IN  /\ {key(k) : k \in 1..Len(metric_dict)}
                      = {requested_metrics[k] : k \in 1..Len(requested_metrics)}
               /\ \A k, m \in 1..Len(metric_dict) :
                      k < m => /\ key(k) # key(m)
                               /\ FirstRequested(key(k)) < FirstRequested(key(m))

\* C3: the 'nem' value is 100 times the share of the predictions whose
\* normalized text equals the normalized text of one of their gold answers,
\* and the 'nf1' value is computeF1 of the normalized predictions against
\* the normalized gold answers.
C3_NormalizedMetrics ==
    (pc = "compute_metrics" /\ raised = None) =>
        LET golds == result.answer
            normalized_preds == [i \in 1..Len(greedy) |-> normalize_text(greedy[i])]
            normalized_golds ==
                [i \in 1..Len(golds) |->
                    [k \in 1..Len(golds[i]) |-> normalize_text(golds[i][k])]]
            matched == {i \in 1..Len(greedy) :
                           \E k \in 1..Len(golds[i]) :
                               normalized_preds[i] = normalized_golds[i][k]}
        IN  /\ Requested(requested_metrics, "nem") =>
                  RatEq(DictGet(result.metric_dict, "nem"),
                        Rat(100 * Cardinality(matched), Len(greedy)))
            /\ Requested(requested_metrics, "nf1") =>
                  RatEq(DictGet(result.metric_dict, "nf1"),
                        computeF1(normalized_preds, normalized_golds))

\* 'T b.' against ['b', 'the t b'] and against ['t']: no prediction equals a
\* gold answer, nem is 50 and nf1 is (1 + 2/3) / 2 * 100
C3_Witness ==
    /\ pc = "compute_metrics" /\ raised = None
    /\ requested_metrics = <<"nem", "nf1">>
    /\ greedy = << <<"T", " ", "b", ".">>, <<"T", " ", "b", ".">> >>
    /\ answer = << << <<"b">>, <<"t", "h", "e", " ", "t", " ", "b">> >>,
                   << <<"t">> >> >>
    /\ RatEq(computeEM(greedy, answer), Rat(0, 1))
    /\ RatEq(result.metric_dict[1][2], Rat(50, 1))
    /\ RatEq(result.metric_dict[2][2], Rat(250, 3))

\* ------------------------------------------------------------------------
\* Properties of lookup_ngrams
\* ------------------------------------------------------------------------
\* spans are <<type_id, start, end>>, covering tokens start .. end - 1
SpanLen(span) == span[3] - span[2]
SpansOverlap(a, b) == a[2] < b[3] /\ b[2] < a[3]

\* the n-gram lengths tried
NgramLens == Min(min_entity_len, Len(tokens))..Min(max_entity_len, Len(tokens))

\* the n-grams of a tried length that match: an alias that is neither banned
\* nor a verb
MatchingSpans ==
    UNION { LET gram_text(start) ==
                    ned_normalize_text(join(Slice(tokens, start, start + n)))
            IN  { <<typeqid2id[alias2type[gram_text(start)]], start, start + n>> :
                    start \in {st \in 0..(Len(tokens) - n) :
                                  /\ ~is_banned(gram_text(st))
                                  /\ gram_text(st) \notin verbs
                                  /\ gram_text(st) \in all_aliases} }
          : n \in NgramLens }

\* a is tried before b: it is longer, or as long and further left
TriedBefore(a, b) ==
    SpanLen(a) > SpanLen(b) \/ (SpanLen(a) = SpanLen(b) /\ a[2] < b[2])

AcceptedSpans == {used_aliases[k] : k \in 1..Len(used_aliases)}

\* the spans are accepted in the order tried, each matching n-gram exactly
\* when it overlaps no span accepted before it, and are pairwise disjoint
GreedyAcceptance ==
    /\ AcceptedSpans \subseteq MatchingSpans
    /\ \A k, m \in 1..Len(used_aliases) :
           k < m => TriedBefore(used_aliases[k], used_aliases[m])
    /\ \A span \in MatchingSpans :
           span \in AcceptedSpans <=>
               ~\E a \in AcceptedSpans : TriedBefore(a, span) /\ SpansOverlap(a, span)
    /\ \A a, b \in AcceptedSpans : a # b => ~SpansOverlap(a, b)

\* the tokens of an accepted span carry its type id, every other token the
\* unknown type id
AnnotatedBySpans ==
    /\ Len(tokens_type_ids) = Len(tokens)
    /\ \A k \in 1..Len(tokens) :
           IF \E a \in AcceptedSpans : a[2] < k /\ k <= a[3]
           THEN \E a \in AcceptedSpans :
                    /\ a[2] < k /\ k <= a[3]
                    /\ tokens_type_ids[k] = Features(a[1])
           ELSE tokens_type_ids[k] = Features(unk_id)

\* C11 as stated: n-grams are tried longest first and left to right, a match
\* is accepted only if it overlaps no span accepted earlier, accepted spans
\* are pairwise disjoint, tokens outside them keep the unknown type id, and
\* every longer match wins over any shorter match it overlaps.
C11_AsStated ==
    (pc = "lookup" /\ database_lookup_method = "ngrams") =>
        /\ GreedyAcceptance
        /\ AnnotatedBySpans
        /\ \A long, short \in MatchingSpans :
               (SpanLen(long) > SpanLen(short) /\ SpansOverlap(long, short))
                   => short \notin AcceptedSpans

\* C11: n-grams are tried longest first and left to right, a match is
\* accepted only if it overlaps no span accepted earlier, accepted spans are
\* pairwise disjoint, tokens outside them keep the unknown type id, and every
\* ACCEPTED longer match wins over any shorter match it overlaps (a longer
\* match that was itself rejected does not keep a shorter one out).
C11_LookupNgrams ==
    (pc = "lookup" /\ database_lookup_method = "ngrams") =>
        /\ GreedyAcceptance
        /\ AnnotatedBySpans
        /\ \A long \in AcceptedSpans : \A short \in MatchingSpans :
               (SpanLen(long) > SpanLen(short) /\ SpansOverlap(long, short))
                   => short \notin AcceptedSpans

\* 'a a a' with aliases 'a a' and 'a', lengths 2 down to 1: 'a a' at 0 is
\* accepted, 'a a' at 1 is rejected, and 'a' at 2, which it overlaps, is
\* accepted
C11_Witness ==
    /\ pc = "lookup" /\ database_lookup_method = "ngrams"
    /\ tokens = << <<"a">>, <<"a">>, <<"a">> >>
    /\ min_entity_len = 1 /\ max_entity_len = 2
    /\ max_features_size = 2
    /\ <<2, 1, 3>> \in MatchingSpans
    /\ used_aliases = << <<2, 0, 2>>, <<1, 2, 3>> >>
    /\ tokens_type_ids = << <<2, 2>>, <<2, 2>>, <<1, 1>> >>

\* ------------------------------------------------------------------------
\* Properties of computeDialogue
\* ------------------------------------------------------------------------
\* the examples of the call: example i has turn identifier TurnOf(i),
\* prediction greedy[i] and gold state GoldOf(i)
TurnOf(i) == answer[i][1][1]
GoldOf(i) == answer[i][1][2]

\* the input positions in ascending order of turn identifier; examples of
\* the same turn identifier in the order of their tuples
Ascending ==
    CHOOSE order \in [1..Len(greedy) -> 1..Len(greedy)] :
        /\ \A k, m \in 1..Len(greedy) : k # m => order[k] # order[m]
        /\ \A k, m \in 1..Len(greedy) :
               k < m =>
                   /\ ~StrLess(TurnOf(order[m]), TurnOf(order[k]))
                   /\ ExampleLess(
                          <<TurnOf(order[k]), greedy[order[k]], GoldOf(order[k]), order[k]>>,
                          <<TurnOf(order[m]), greedy[order[m]], GoldOf(order[m]), order[m]>>)

\* the first turn of the dialogue the n-th processed example belongs to,
\* order being the order of processing: a dialogue starts where the prefix
\* differs from that of the first turn of the dialogue before
RECURSIVE FirstTurn(_, _)
FirstTurn(order, n) ==
    IF n = 1 THEN 1
    ELSE LET first == FirstTurn(order, n - 1)
         IN  IF DialoguePrefix(TurnOf(order[n])) # DialoguePrefix(TurnOf(order[first]))
             THEN n
             ELSE first

\* the inform slots of every processed example, predicted or gold
InformOf(order, gold) ==
    [n \in 1..Len(order) |->
        to_delta_state(IF gold THEN GoldOf(order[n]) ELSE greedy[order[n]]).inform]

\* the cumulative state after the n-th processed example, informs being the
\* inform slots of the examples: every slot informed since the first turn of
\* its dialogue, with the value of the latest turn that informed it
Cumulative(order, informs, n) ==
    LET turns == FirstTurn(order, n)..n
        slots == UNION {DOMAIN informs[m] : m \in turns}
        latest(slot) == CHOOSE m \in turns :
                            /\ slot \in DOMAIN informs[m]
                            /\ \A later \in turns :
                                   later > m => slot \notin DOMAIN informs[later]
    IN  [slot \in slots |-> informs[latest(slot)][slot]]

\* C12: with the examples processed in ascending order of turn identifier,
\* the cumulative states reset at each first turn of a dialogue and each
\* turn's inform slots overwriting same-named slots, joint_goal_em is 100
\* times the share of the turns whose predicted and gold cumulative states
\* are equal.
C12_ComputeDialogue ==
    (pc = "computeDialogue" /\ raised = None) =>
        LET order == Ascending
            predicted == InformOf(order, FALSE)
            gold == InformOf(order, TRUE)
        IN  RatEq(result[1],
                  Rat(100 * Cardinality({n \in 1..Len(greedy) :
                                            Cumulative(order, predicted, n)
                                                = Cumulative(order, gold, n)}),
                      Len(greedy)))

\* turn d_2 is given before turn d_1; d_1 predicts and has 'x:1,y:2;', d_2
\* predicts 'x:1;' where the gold turn is 'None': the cumulative states are
\* equal at both turns although the second turn's own slots differ
C12_Witness ==
    /\ pc = "computeDialogue" /\ raised = None
    /\ greedy = << <<"x", ":", "1", ";">>,
                   <<"x", ":", "1", ",", "y", ":", "2", ";">> >>
    /\ answer = << << << <<"d", "_", "2">>, NoneStr >> >>,
                   << << <<"d", "_", "1">>,
                         <<"x", ":", "1", ",", "y", ":", "2", ";">> >> >> >>
    /\ Ascending = <<2, 1>>
    /\ FirstTurn(Ascending, 2) = 1
    /\ RatEq(result[1], Rat(100, 1))
    /\ RatEq(result[3], Rat(50, 1))

\* C17: the answer list returned by computeDialogue has one one-element
\* entry per input example, entry i holding the gold dialogue-state string
\* of the i-th input example.
C17_AnswersAligned ==
    (pc = "computeDialogue" /\ raised = None) =>
        result[4] = [i \in 1..Len(greedy) |-> <<GoldOf(i)>>]

\* turn d_2 with gold 'x:2;y' is given before turn d_1 with gold 'x:1;'
C17_Witness ==
    /\ pc = "computeDialogue" /\ raised = None
    /\ Len(greedy) = 2
    /\ TurnOf(1) = <<"d", "_", "2">> /\ TurnOf(2) = <<"d", "_", "1">>
    /\ Ascending = <<2, 1>>
    /\ result[4] = << << <<"x", ":", "2", ";", "y">> >>, << <<"x", ":", "1", ";">> >> >>

\* ------------------------------------------------------------------------
\* Properties of to_delta_state
\* ------------------------------------------------------------------------
\* the line is 'None', blank, ';', or has not exactly two parts on ';'
NoDelta ==
    \/ line = NoneStr
    \/ \A k \in 1..Len(line) : line[k] \in Whitespace
    \/ strip(line) = <<";">>
    \/ Cardinality({k \in 1..Len(line) : line[k] = ";"}) # 1

\* the inform items: the part before the ';', split on ','
InformItems == split_on(split_on(line, ";")[1], ",")

\* the items that split into exactly one key and one value on ':'
WellFormedItems ==
    {n \in 1..Len(InformItems) :
        Cardinality({k \in 1..Len(InformItems[n]) : InformItems[n][k] = ":"}) = 1}

ItemKey(n) == strip(split_on(InformItems[n], ":")[1])
ItemValue(n) == strip(split_on(InformItems[n], ":")[2])

\* C13: to_delta_state never raises and returns a dictionary with keys
\* 'inform' and 'request'; both are empty when the line is 'None', blank,
\* ';' or has not exactly two parts on ';'; otherwise inform holds exactly
\* the well-formed inform items (a later item of the same key replacing an
\* earlier one), the other items being skipped.
C13_ToDeltaState ==
    pc = "to_delta_state" =>
        /\ raised = None
        /\ DOMAIN delta_state = {"inform", "request"}
        /\ NoDelta => /\ delta_state.inform = EmptyDict
                      /\ delta_state.request = EmptyDict
        /\ ~NoDelta =>
               /\ DOMAIN delta_state.inform = {ItemKey(n) : n \in WellFormedItems}
               /\ \A n \in WellFormedItems :
                      (\A m \in WellFormedItems : m > n => ItemKey(m) # ItemKey(n))
                          => delta_state.inform[ItemKey(n)] = ItemValue(n)

\* 'x,1:x;': the item 'x' has no ':' and is skipped, the item '1:x' is kept
C13_Witness ==
    /\ pc = "to_delta_state" /\ raised = None
    /\ line = <<"x", ",", "1", ":", "x", ";">>
    /\ WellFormedItems = {2}
    /\ DOMAIN delta_state.inform = { <<"1">> }
    /\ delta_state.inform[<<"1">>] = <<"x">>
    /\ delta_state.request = << <<>> >>

\* ------------------------------------------------------------------------
\* Properties of lookup_entities
\* ------------------------------------------------------------------------
\* the entity occurs as a run of whole tokens starting at token index p
OccursAt(ent, p) ==
    LET n == Len(split_on(ent, " "))
    IN  p + n <= Len(tokens) /\ join(Slice(tokens, p, p + n)) = ent

\* the token indices at which the entity occurs as a run of whole tokens
Occurrences(ent) == {p \in 0..(Len(tokens) - 1) : OccursAt(ent, p)}

\* the entities of the call that are aliases
KnownEntities == {entities[n] : n \in 1..Len(entities)} \cap all_aliases

\* the known entities with an occurrence that covers token index k
EntitiesOver(k) ==
    {ent \in KnownEntities :
        \E p \in Occurrences(ent) :
            p <= k /\ k < p + Len(split_on(ent, " "))}

\* C14 as stated: the list returned by lookup_entities has len(tokens)
\* entries; when every known entity occurs as a run of whole tokens, a token
\* inside such a run (a run starting at token 0 included) carries the type
\* id of an entity that covers it and every other token the unknown type id.
C14_AsStated ==
    (/\ pc = "lookup_entities" /\ raised = None
     /\ \A ent \in KnownEntities : Cardinality(Occurrences(ent)) = 1) =>
        /\ Len(tokens_type_ids) = Len(tokens)
        /\ \A k \in 0..(Len(tokens) - 1) :
               IF EntitiesOver(k) = {}
               THEN tokens_type_ids[k + 1] = Features(unk_id)
               ELSE \E ent \in EntitiesOver(k) :
                        tokens_type_ids[k + 1] = Features(typeqid2id[alias2type[ent]])

\* ------------------------------------------------------------------------
\* Properties of the 'ner_f1_IOB1' step
\* ------------------------------------------------------------------------
\* the category X of a label B-X or I-X
CategoryOf(label) == SubSeq(label, 3, Len(label))

\* a label sequence in IOB1: B-X becomes I-X unless the label before it in
\* the sequence has category X
IOB1(labels) ==
    [k \in 1..Len(labels) |->
        IF /\ labels[k] # <<>> /\ Head(labels[k]) = "B"
           /\ ~(k > 1 /\ CategoryOf(labels[k - 1]) = CategoryOf(labels[k]))
        THEN <<"I">> \o Tail(labels[k])
        ELSE labels[k]]

\* C15 as stated: when 'ner_f1_IOB1' is requested, the label sequence of
\* every prediction and of every first gold answer is scored in IOB1: B-X
\* rewritten to I-X unless the label before it has category X, every other
\* label unchanged.
C15_AsStated ==
    (pc = "ner_f1_IOB1" /\ raised = None) =>
        /\ result[1] = [i \in 1..Len(greedy) |-> IOB1(split(greedy[i]))]
        /\ result[2] = [i \in 1..Len(answer) |-> IOB1(split(answer[i][1]))]

\* ------------------------------------------------------------------------
\* Properties of the answers compute_metrics scores against
\* ------------------------------------------------------------------------
\* the gold answers in effect: the lower-cased answer texts of the SQL
\* examples when 'lfem' is requested, the gold dialogue states when
\* 'joint_goal_em' is requested, else the answers passed in, each wrapped
\* in a list if they are not lists
AnswersInEffect ==
    IF Requested(requested_metrics, "lfem")
    THEN [i \in 1..Len(answer) |-> <<lower(answer[i][1].answer)>>]
    ELSE IF Requested(requested_metrics, "joint_goal_em")
    THEN [i \in 1..Len(answer) |-> <<answer[i][1][2]>>]
    ELSE IF answer_is_list THEN answer
    ELSE [i \in 1..Len(answer) |-> <<answer[i]>>]

\* C16: the second value returned by compute_metrics is the answer list in
\* effect after 'lfem' and 'joint_goal_em' replaced the answers passed in,
\* and the metrics computed afterwards (em, f1) are scored against it.
C16_ReplacedAnswers ==
    (pc = "compute_metrics" /\ raised = None) =>
        /\ result.answer = AnswersInEffect
        /\ Requested(requested_metrics, "em") =>
               RatEq(DictGet(result.metric_dict, "em"),
                     computeEM(greedy, AnswersInEffect))
        /\ Requested(requested_metrics, "f1") =>
               RatEq(DictGet(result.metric_dict, "f1"),
                     computeF1(greedy, AnswersInEffect))

\* 'lfem' and 'em' requested, prediction 't' and an SQL example whose answer
\* text is 'T': em is scored against 't' and is 100
C16_Witness ==
    /\ pc = "compute_metrics" /\ raised = None
    /\ requested_metrics = <<"lfem", "em">>
    /\ greedy = << <<"t">> >>
    /\ Len(answer) = 1 /\ answer[1][1].answer = <<"T">>
    /\ result.answer = << << <<"t">> >> >>
    /\ RatEq(result.metric_dict[2][2], Rat(100, 1))

====
